---------------------------- MODULE Spec2Model ----------------------------
(***************************************************************************)
(* A model of the design-pattern examples of this repository:              *)
(*   - patterns/command.rs     the three Schema representations            *)
(*   - patterns/raii_guard.rs  ConnectionGuard over a NetworkConnection    *)
(*   - patterns/strategy_di.rs Context::execute (strategy + database)      *)
(*   - patterns/newtype.rs     Password and its Display                    *)
(* The examples share no state, so each has its own specification over its *)
(* own variables; the other examples' variables stay at their initial      *)
(* values.                                                                 *)
(***************************************************************************)
EXTENDS Integers, Sequences, FiniteSets, TLC

VARIABLES
    \* command.rs
    script,        \* the migrations the caller appends, in order (abstract ids)
    added,         \* per Schema variant: how many add_migration calls it received
    to_commands,   \* trait_object::Schema.commands
    fp_commands,   \* function_pointer::Schema.commands
    fn_executes,   \* fn_trait_object::Schema.executes
    fn_rollbacks,  \* fn_trait_object::Schema.rollbacks
    ret_execute,   \* per variant: values returned by execute() since its last add_migration
    ret_rollback,  \* per variant: values returned by rollback() since its last add_migration
    \* raii_guard.rs
    g_phase,       \* "live": the guard is in scope; "dropped": Drop::drop has run
    g_network,     \* ConnectionGuard.network: <<>> is None, <<c>> is Some(c)
    g_results,     \* the values ConnectionGuard::send_data returned, in call order
    g_calls,       \* the calls made on the guard and its connection, in order
    g_stdout,      \* the lines printed
    \* strategy_di.rs
    c_strategy,    \* Context.strategy: the Strategy implementation
    c_db,          \* Context.data_service.db: the Database implementation
    c_overflow_checks, \* whether the build checks integer overflow (debug) or wraps (release)
    c_call,        \* <<>> or <<[a, b, ret]>>: the last Context::execute call
    \* newtype.rs
    p_password,    \* per slot: the String a Password wraps
    p_shown        \* per slot: <<>> or <<s>>, s what formatting the Password produced

schemaVars == <<script, added, to_commands, fp_commands, fn_executes, fn_rollbacks,
                ret_execute, ret_rollback>>

guardVars == <<g_phase, g_network, g_results, g_calls, g_stdout>>

contextVars == <<c_strategy, c_db, c_overflow_checks, c_call>>

passwordVars == <<p_password, p_shown>>

vars == <<schemaVars, guardVars, contextVars, passwordVars>>

---------------------------------------------------------------------------
(* Bounds of the model *)

MaxMigrations == 3
MaxCalls == 3
MaxSends == 3
MaxCloses == 2

---------------------------------------------------------------------------
(* command.rs: the migrations *)

\* The three modules of command.rs, each with its own Schema.
Variants == {"trait_object", "function_pointer", "fn_trait_object"}

\* The two migrations the repository defines, named abstractly; each variant has its
\* own representation of them.
Migrations == {"create_table", "add_field"}

\* trait_object: impl Migration for CreateTable / AddField.
Migration_execute(cmd) ==
    CASE cmd = "CreateTable" -> "create table"
      [] cmd = "AddField" -> "add field"

Migration_rollback(cmd) ==
    CASE cmd = "CreateTable" -> "drop table"
      [] cmd = "AddField" -> "remove field"

\* function_pointer: calling a FnPtr (fn() -> String). The values are the closures
\* and functions of test_function_pointer.
FnPtr_call(f) ==
    CASE f = "test_function_pointer::{closure#0}" -> "create table"
      [] f = "test_function_pointer::{closure#1}" -> "drop table"
      [] f = "test_function_pointer::add_field" -> "add field"
      [] f = "test_function_pointer::remove_field" -> "remove field"

\* fn_trait_object: calling a Box<dyn Fn() -> &str>. The values are the closures and
\* functions of test_fn_trait_object.
Fn_call(f) ==
    CASE f = "test_fn_trait_object::{closure#0}" -> "create table"
      [] f = "test_fn_trait_object::{closure#1}" -> "drop table"
      [] f = "test_fn_trait_object::add_field" -> "add field"
      [] f = "test_fn_trait_object::remove_field" -> "remove field"

\* What the caller passes to add_migration for an abstract migration, per variant.
BoxedCommand(m) ==
    CASE m = "create_table" -> "CreateTable"
      [] m = "add_field" -> "AddField"

FnPtrPair(m) ==
    CASE m = "create_table" -> <<"test_function_pointer::{closure#0}",
                                 "test_function_pointer::{closure#1}">>
      [] m = "add_field" -> <<"test_function_pointer::add_field",
                              "test_function_pointer::remove_field">>

ClosurePair(m) ==
    CASE m = "create_table" -> <<"test_fn_trait_object::{closure#0}",
                                 "test_fn_trait_object::{closure#1}">>
      [] m = "add_field" -> <<"test_fn_trait_object::add_field",
                              "test_fn_trait_object::remove_field">>

---------------------------------------------------------------------------
(* command.rs: the Schema methods, as functions of the fields *)

\* Iterator::rev over a slice iterator: the elements last to first.
Rev(s) == [i \in 1..Len(s) |-> s[Len(s) + 1 - i]]

\* A &self method's outcome: the fields after the call and the value returned.
Read(self, ret) == [self |-> self, ret |-> ret]

\* trait_object::Schema, its field commands
trait_object_new == <<>>

trait_object_default == trait_object_new

\* Mutant: the new command is inserted first (Vec::insert(0, cmd)) instead of pushed.
trait_object_add_migration_front(commands, cmd) == <<cmd>> \o commands

trait_object_add_migration(commands, cmd) == Append(commands, cmd)

trait_object_execute(commands) ==
    Read(commands, [i \in 1..Len(commands) |-> Migration_execute(commands[i])])

\* Mutant: rollback without .rev().
trait_object_rollback_forward(commands) ==
    Read(commands, [i \in 1..Len(commands) |-> Migration_rollback(commands[i])])

trait_object_rollback(commands) ==
    Read(commands, [i \in 1..Len(commands) |-> Migration_rollback(Rev(commands)[i])])

\* function_pointer::Schema, its field commands
function_pointer_new == <<>>

function_pointer_default == function_pointer_new

function_pointer_add_migration(commands, execute, rollback) ==
    Append(commands, [execute |-> execute, rollback |-> rollback])

\* Mutant: execute pops the commands it runs instead of iterating over them.
function_pointer_execute_draining(commands) ==
    Read(<<>>, [i \in 1..Len(commands) |-> FnPtr_call(commands[i].execute)])

function_pointer_execute(commands) ==
    Read(commands, [i \in 1..Len(commands) |-> FnPtr_call(commands[i].execute)])

\* Mutant: rollback calls the execute pointer of each command.
function_pointer_rollback_wrong_field(commands) ==
    Read(commands, [i \in 1..Len(commands) |-> FnPtr_call(Rev(commands)[i].execute)])

function_pointer_rollback(commands) ==
    Read(commands, [i \in 1..Len(commands) |-> FnPtr_call(Rev(commands)[i].rollback)])

\* fn_trait_object::Schema: two vectors, as a record of both.
fn_trait_object_new == [executes |-> <<>>, rollbacks |-> <<>>]

fn_trait_object_default == fn_trait_object_new

\* Mutant: the rollback closure is inserted first, the execute closure pushed last.
fn_trait_object_add_migration_skewed(self, execute, rollback) ==
    [executes |-> Append(self.executes, execute),
     rollbacks |-> <<rollback>> \o self.rollbacks]

fn_trait_object_add_migration(self, execute, rollback) ==
    [executes |-> Append(self.executes, execute),
     rollbacks |-> Append(self.rollbacks, rollback)]

\* Mutant: execute iterates with .rev(), as rollback does.
fn_trait_object_execute_reversed(self) ==
    Read(self, [i \in 1..Len(self.executes) |-> Fn_call(Rev(self.executes)[i])])

fn_trait_object_execute(self) ==
    Read(self, [i \in 1..Len(self.executes) |-> Fn_call(self.executes[i])])

fn_trait_object_rollback(self) ==
    Read(self, [i \in 1..Len(self.rollbacks) |-> Fn_call(Rev(self.rollbacks)[i])])

---------------------------------------------------------------------------
(* command.rs: the state machine *)

fn_self == [executes |-> fn_executes, rollbacks |-> fn_rollbacks]

InitSchema ==
    /\ script = <<>>
    /\ added = [v \in Variants |-> 0]
    /\ \E ctor \in {"new", "default"} :
          /\ to_commands = IF ctor = "new" THEN trait_object_new ELSE trait_object_default
          /\ fp_commands = IF ctor = "new" THEN function_pointer_new
                                           ELSE function_pointer_default
          /\ LET s == IF ctor = "new" THEN fn_trait_object_new ELSE fn_trait_object_default
             IN  fn_executes = s.executes /\ fn_rollbacks = s.rollbacks
    /\ ret_execute = [v \in Variants |-> <<>>]
    /\ ret_rollback = [v \in Variants |-> <<>>]

\* The caller's next migration for variant v: the script's next entry, or a new one
\* appended to the script when v has received the whole script.
NextMigration(v, m) ==
    /\ added[v] < MaxMigrations
    /\ IF added[v] < Len(script)
         THEN m = script[added[v] + 1] /\ script' = script
         ELSE script' = Append(script, m)
    /\ added' = [added EXCEPT ![v] = @ + 1]
    /\ ret_execute' = [ret_execute EXCEPT ![v] = <<>>]
    /\ ret_rollback' = [ret_rollback EXCEPT ![v] = <<>>]

TraitObjectAddMigration(m) ==
    /\ NextMigration("trait_object", m)
    /\ to_commands' = trait_object_add_migration(to_commands, BoxedCommand(m))
    /\ UNCHANGED <<fp_commands, fn_executes, fn_rollbacks>>
    /\ UNCHANGED <<guardVars, contextVars, passwordVars>>

FunctionPointerAddMigration(m) ==
    /\ NextMigration("function_pointer", m)
    /\ fp_commands' = function_pointer_add_migration(fp_commands, FnPtrPair(m)[1],
                                                     FnPtrPair(m)[2])
    /\ UNCHANGED <<to_commands, fn_executes, fn_rollbacks>>
    /\ UNCHANGED <<guardVars, contextVars, passwordVars>>

FnTraitObjectAddMigration(m) ==
    /\ NextMigration("fn_trait_object", m)
    /\ LET s == fn_trait_object_add_migration(fn_self, ClosurePair(m)[1], ClosurePair(m)[2])
       IN  fn_executes' = s.executes /\ fn_rollbacks' = s.rollbacks
    /\ UNCHANGED <<to_commands, fp_commands>>
    /\ UNCHANGED <<guardVars, contextVars, passwordVars>>

\* Results recorded and not yet discarded by an add_migration, over all variants.
RECURSIVE SumLen(_, _)
SumLen(f, S) ==
    IF S = {} THEN 0
    ELSE LET v == CHOOSE x \in S : TRUE IN Len(f[v]) + SumLen(f, S \ {v})

Calls == SumLen(ret_execute, Variants) + SumLen(ret_rollback, Variants)

\* The three schemas' fields, by variant.
Fields == [trait_object |-> to_commands,
           function_pointer |-> fp_commands,
           fn_trait_object |-> fn_self]

ExecuteOf(v) ==
    CASE v = "trait_object" -> trait_object_execute(to_commands)
      [] v = "function_pointer" -> function_pointer_execute(fp_commands)
      [] v = "fn_trait_object" -> fn_trait_object_execute(fn_self)

RollbackOf(v) ==
    CASE v = "trait_object" -> trait_object_rollback(to_commands)
      [] v = "function_pointer" -> function_pointer_rollback(fp_commands)
      [] v = "fn_trait_object" -> fn_trait_object_rollback(fn_self)

\* The fields of the three schemas after a call on variant v that left it `self`.
FieldsBecome(v, self) ==
    LET f == [Fields EXCEPT ![v] = self]
    IN  /\ to_commands' = f.trait_object
        /\ fp_commands' = f.function_pointer
        /\ fn_executes' = f.fn_trait_object.executes
        /\ fn_rollbacks' = f.fn_trait_object.rollbacks

SchemaExecute(v) ==
    /\ Calls < MaxCalls
    /\ ret_execute' = [ret_execute EXCEPT ![v] = Append(@, ExecuteOf(v).ret)]
    /\ FieldsBecome(v, ExecuteOf(v).self)
    /\ UNCHANGED <<script, added, ret_rollback>>
    /\ UNCHANGED <<guardVars, contextVars, passwordVars>>

SchemaRollback(v) ==
    /\ Calls < MaxCalls
    /\ ret_rollback' = [ret_rollback EXCEPT ![v] = Append(@, RollbackOf(v).ret)]
    /\ FieldsBecome(v, RollbackOf(v).self)
    /\ UNCHANGED <<script, added, ret_execute>>
    /\ UNCHANGED <<guardVars, contextVars, passwordVars>>

NextSchema ==
    \/ \E m \in Migrations : TraitObjectAddMigration(m)
    \/ \E m \in Migrations : FunctionPointerAddMigration(m)
    \/ \E m \in Migrations : FnTraitObjectAddMigration(m)
    \/ \E v \in Variants : SchemaExecute(v)
    \/ \E v \in Variants : SchemaRollback(v)

---------------------------------------------------------------------------
(* raii_guard.rs *)

None == <<>>

Some(x) == <<x>>

Ok == [tag |-> "Ok"]

\* io::Error::new(kind, message)
Err(kind, msg) == [tag |-> "Err", kind |-> kind, msg |-> msg]

\* A method's effects: the receiver after the call, the value returned, the lines
\* printed and the calls made, the method's own first.
Effect(self, ret, out, calls) == [self |-> self, ret |-> ret, out |-> out, calls |-> calls]

NetworkConnection_connect == [connected |-> TRUE]

NetworkConnection_send_data(self, data) ==
    IF self.connected
      THEN Effect(self, Ok, <<"Sending data over the network: " \o data>>,
                  <<"NetworkConnection::send_data">>)
      ELSE Effect(self, Err("BrokenPipe", "Connection closed"), <<>>,
                  <<"NetworkConnection::send_data">>)

NetworkConnection_close(self) ==
    Effect([self EXCEPT !.connected = FALSE], <<>>, <<"Closing network connection">>,
           <<"NetworkConnection::close">>)

ConnectionGuard_new == [network |-> Some(NetworkConnection_connect)]

\* Mutant: send_data unwraps the Option (self.network.as_ref().unwrap()) and so
\* panics on None.
ConnectionGuard_send_data_unwrap(self, data) ==
    IF self.network # None
      THEN LET e == NetworkConnection_send_data(self.network[1], data)
           IN  Effect(self, e.ret, e.out, <<"ConnectionGuard::send_data">> \o e.calls)
      ELSE Effect(self, [tag |-> "panic"], <<>>, <<"ConnectionGuard::send_data">>)

ConnectionGuard_send_data(self, data) ==
    IF self.network # None
      THEN LET e == NetworkConnection_send_data(self.network[1], data)
           IN  Effect(self, e.ret, e.out, <<"ConnectionGuard::send_data">> \o e.calls)
      ELSE Effect(self, Err("BrokenPipe", "Connection closed"), <<>>,
                  <<"ConnectionGuard::send_data">>)

\* Mutant: close borrows the connection (if let Some(network) = &mut self.network)
\* instead of taking it out of the Option.
ConnectionGuard_close_borrowing(self) ==
    IF self.network # None
      THEN LET e == NetworkConnection_close(self.network[1])
           IN  Effect([self EXCEPT !.network = Some(e.self)], <<>>, e.out,
                      <<"ConnectionGuard::close">> \o e.calls)
      ELSE Effect(self, <<>>, <<>>, <<"ConnectionGuard::close">>)

\* Option::take leaves None in the field; the connection taken is closed and then
\* discarded at the end of the block.
ConnectionGuard_close(self) ==
    IF self.network # None
      THEN LET e == NetworkConnection_close(self.network[1])
           IN  Effect([self EXCEPT !.network = None], <<>>, e.out,
                      <<"ConnectionGuard::close">> \o e.calls)
      ELSE Effect(self, <<>>, <<>>, <<"ConnectionGuard::close">>)

ConnectionGuard_drop(self) ==
    LET e == ConnectionGuard_close(self)
    IN  Effect(e.self, <<>>, <<"ConnectionGuard is dropping">> \o e.out,
               <<"ConnectionGuard::drop">> \o e.calls)

\* The data the callers send: the test's string and the empty string.
Data == {"Something New!", ""}

g_self == [network |-> g_network]

Count(seq, x) == Cardinality({i \in 1..Len(seq) : seq[i] = x})

InitGuard ==
    /\ g_phase = "live"
    /\ g_network = ConnectionGuard_new.network
    /\ g_results = <<>>
    /\ g_calls = <<>>
    /\ g_stdout = <<>>

GuardSendData(data) ==
    /\ g_phase = "live"
    /\ Len(g_results) < MaxSends
    /\ LET e == ConnectionGuard_send_data(g_self, data)
       IN  /\ g_network' = e.self.network
           /\ g_results' = Append(g_results, e.ret)
           /\ g_calls' = g_calls \o e.calls
           /\ g_stdout' = g_stdout \o e.out
    /\ UNCHANGED g_phase
    /\ UNCHANGED <<schemaVars, contextVars, passwordVars>>

\* ConnectionGuard::close is private: only code of raii_guard.rs can call it other
\* than through drop.
GuardClose ==
    /\ g_phase = "live"
    /\ Count(g_calls, "ConnectionGuard::close") < MaxCloses
    /\ LET e == ConnectionGuard_close(g_self)
       IN  /\ g_network' = e.self.network
           /\ g_calls' = g_calls \o e.calls
           /\ g_stdout' = g_stdout \o e.out
    /\ UNCHANGED <<g_phase, g_results>>
    /\ UNCHANGED <<schemaVars, contextVars, passwordVars>>

\* The guard goes out of scope.
GuardDrop ==
    /\ g_phase = "live"
    /\ LET e == ConnectionGuard_drop(g_self)
       IN  /\ g_network' = e.self.network
           /\ g_calls' = g_calls \o e.calls
           /\ g_stdout' = g_stdout \o e.out
    /\ g_phase' = "dropped"
    /\ UNCHANGED g_results
    /\ UNCHANGED <<schemaVars, contextVars, passwordVars>>

NextGuard ==
    \/ \E data \in Data : GuardSendData(data)
    \/ GuardClose
    \/ GuardDrop

---------------------------------------------------------------------------
(* strategy_di.rs *)

I32Max == 2147483647

I32Min == -I32Max - 1

\* The arguments the callers pass: the tests' (2, 3) and (10, 3), and the ends of i32.
I32Values == {I32Min, -3, 0, 2, 3, 10, I32Max}

Strategies == {"AdditionStrategy", "SubtractionStrategy"}

Databases == {"MySQLDatabase", "PostgresDatabase"}

Panic == [tag |-> "panic"]

Returned(x) == [tag |-> "return", val |-> x]

\* a + b on i32: outside i32 it panics when the build checks overflow and wraps
\* modulo 2^32 otherwise. The wrapped sum is computed without leaving i32.
i32_add(a, b, overflow_checks) ==
    IF b > 0 /\ a > I32Max - b
      THEN IF overflow_checks THEN Panic ELSE Returned((a + I32Min) + (b + I32Min))
    ELSE IF b < 0 /\ a < I32Min - b
      THEN IF overflow_checks THEN Panic ELSE Returned((a - I32Min) + (b - I32Min))
    ELSE Returned(a + b)

\* a - b on i32, likewise.
i32_sub(a, b, overflow_checks) ==
    IF b < 0 /\ a > I32Max + b
      THEN IF overflow_checks THEN Panic ELSE Returned((a + I32Min) - (b - I32Min))
    ELSE IF b > 0 /\ a < I32Min + b
      THEN IF overflow_checks THEN Panic ELSE Returned((a - I32Min) - (b + I32Min))
    ELSE Returned(a - b)

AdditionStrategy_execute_strategy(a, b, overflow_checks) == i32_add(a, b, overflow_checks)

\* Mutant: SubtractionStrategy copied from AdditionStrategy with the operator left.
SubtractionStrategy_execute_strategy_adds(a, b, overflow_checks) ==
    i32_add(a, b, overflow_checks)

SubtractionStrategy_execute_strategy(a, b, overflow_checks) == i32_sub(a, b, overflow_checks)

Strategy_execute_strategy(strategy, a, b, overflow_checks) ==
    CASE strategy = "AdditionStrategy" ->
           AdditionStrategy_execute_strategy(a, b, overflow_checks)
      [] strategy = "SubtractionStrategy" ->
           SubtractionStrategy_execute_strategy(a, b, overflow_checks)

MySQLDatabase_query(query) == "MySQL: " \o query

PostgresDatabase_query(query) == "Postgres: " \o query

Database_query(db, query) ==
    CASE db = "MySQLDatabase" -> MySQLDatabase_query(query)
      [] db = "PostgresDatabase" -> PostgresDatabase_query(query)

DataService_get_data(db, query) == Database_query(db, query)

\* Display for i32: the decimal digits, with a leading "-" below zero.
i32_to_string(n) == ToString(n)

Context_execute(strategy, db, a, b, overflow_checks) ==
    LET result == Strategy_execute_strategy(strategy, a, b, overflow_checks)
    IN  IF result.tag = "panic"
          THEN Panic
          ELSE Returned(DataService_get_data(db, "SELECT " \o i32_to_string(result.val) \o ";"))

InitContext ==
    /\ c_strategy \in Strategies
    /\ c_db \in Databases
    /\ c_overflow_checks \in BOOLEAN
    /\ c_call = <<>>

ContextExecute(a, b) ==
    /\ c_call' = <<[a |-> a, b |-> b,
                    ret |-> Context_execute(c_strategy, c_db, a, b, c_overflow_checks)]>>
    /\ UNCHANGED <<c_strategy, c_db, c_overflow_checks>>
    /\ UNCHANGED <<schemaVars, guardVars, passwordVars>>

NextContext == \E a \in I32Values, b \in I32Values : ContextExecute(a, b)

---------------------------------------------------------------------------
(* newtype.rs *)

StarCount == 16

\* str::repeat
RECURSIVE str_repeat(_, _)
str_repeat(s, n) == IF n = 0 THEN "" ELSE s \o str_repeat(s, n - 1)

\* Mutant: one star per character of the secret.
Password_fmt_per_char(secret) == str_repeat("*", Len(secret))

\* impl Display for Password: what fmt writes for a Password wrapping `secret`.
Password_fmt(secret) == str_repeat("*", StarCount)

\* The strings wrapped: empty, shorter than 16, the test's (16 long), 16 stars, and
\* longer than 16.
Secrets == {"", "a", "hunter2", "ThisIsMyPassword", "****************",
            "correct horse battery staple"}

Slots == {1, 2}

InitPassword ==
    /\ p_password \in [Slots -> Secrets]
    /\ p_shown = [i \in Slots |-> <<>>]

\* Password(s): a new Password in slot i.
PasswordNew(i, s) ==
    /\ p_password' = [p_password EXCEPT ![i] = s]
    /\ p_shown' = [p_shown EXCEPT ![i] = <<>>]
    /\ UNCHANGED <<schemaVars, guardVars, contextVars>>

\* format!("{}", password) on the Password in slot i.
PasswordDisplay(i) ==
    /\ p_shown' = [p_shown EXCEPT ![i] = <<Password_fmt(p_password[i])>>]
    /\ UNCHANGED p_password
    /\ UNCHANGED <<schemaVars, guardVars, contextVars>>

NextPassword ==
    \/ \E i \in Slots, s \in Secrets : PasswordNew(i, s)
    \/ \E i \in Slots : PasswordDisplay(i)

---------------------------------------------------------------------------
(* The specifications: one per example *)

\* The examples a specification does not run stay in one fixed initial state.
IdleSchema == InitSchema

IdleGuard == InitGuard

IdleContext ==
    /\ c_strategy = "AdditionStrategy"
    /\ c_db = "MySQLDatabase"
    /\ c_overflow_checks = TRUE
    /\ c_call = <<>>

IdlePassword ==
    /\ p_password = [i \in Slots |-> ""]
    /\ p_shown = [i \in Slots |-> <<>>]

InitSchemaSpec == InitSchema /\ IdleGuard /\ IdleContext /\ IdlePassword

InitGuardSpec == IdleSchema /\ InitGuard /\ IdleContext /\ IdlePassword

InitContextSpec == IdleSchema /\ IdleGuard /\ InitContext /\ IdlePassword

InitPasswordSpec == IdleSchema /\ IdleGuard /\ IdleContext /\ InitPassword

SpecSchema == InitSchemaSpec /\ [][NextSchema]_vars

SpecGuard == InitGuardSpec /\ [][NextGuard]_vars

SpecContext == InitContextSpec /\ [][NextContext]_vars

SpecPassword == InitPasswordSpec /\ [][NextPassword]_vars

---------------------------------------------------------------------------
(* command.rs: the properties *)

\* The labels of a migration, as the documentation of command.rs gives them.
ExecuteLabel(m) ==
    CASE m = "create_table" -> "create table"
      [] m = "add_field" -> "add field"

RollbackLabel(m) ==
    CASE m = "create_table" -> "drop table"
      [] m = "add_field" -> "remove field"

\* The migrations variant v has received, in order.
Received(v) == SubSeq(script, 1, added[v])

\* The number of entries variant v stores.
Stored(v) ==
    CASE v = "trait_object" -> Len(to_commands)
      [] v = "function_pointer" -> Len(fp_commands)
      [] v = "fn_trait_object" -> Len(fn_executes)

\* C1: in every variant, each value rollback() returned after N add_migration calls
\* has exactly N labels, the i-th (from 1) being the rollback label of the
\* (N + 1 - i)-th migration added: the rollback labels in reverse insertion order,
\* and the empty sequence for N = 0.
C1_RollbackReverseOrder ==
    \A v \in Variants : \A k \in 1..Len(ret_rollback[v]) :
        LET r == ret_rollback[v][k]
            n == added[v]
        IN  /\ Len(r) = n
            /\ \A i \in 1..n : r[i] = RollbackLabel(script[n + 1 - i])

C1_Witness ==
    /\ \A v \in Variants : added[v] = 3 /\ ret_rollback[v] # <<>>
    /\ script[1] # script[3]
    /\ script[2] = script[3]

\* C2: in every variant, each value execute() returned after N add_migration calls
\* has exactly N labels, the i-th being the execute label of the i-th migration
\* added, and is the empty sequence for N = 0.
C2_ExecuteInsertionOrder ==
    \A v \in Variants : \A k \in 1..Len(ret_execute[v]) :
        LET r == ret_execute[v][k]
            n == added[v]
        IN  /\ Len(r) = n
            /\ \A i \in 1..n : r[i] = ExecuteLabel(script[i])

C2_Witness ==
    /\ \A v \in Variants : added[v] = 3 /\ ret_execute[v] # <<>>
    /\ script[1] # script[3]
    /\ script[2] = script[3]

\* C3: whenever two variants have received the same sequence of migrations, their
\* execute() results are equal and their rollback() results are equal: those the
\* calls would return in this state, and those the calls made have returned.
C3_VariantsEquivalent ==
    \A v \in Variants, w \in Variants :
        Received(v) = Received(w) =>
            /\ ExecuteOf(v).ret = ExecuteOf(w).ret
            /\ RollbackOf(v).ret = RollbackOf(w).ret
            /\ \A i \in 1..Len(ret_execute[v]), j \in 1..Len(ret_execute[w]) :
                   ret_execute[v][i] = ret_execute[w][j]
            /\ \A i \in 1..Len(ret_rollback[v]), j \in 1..Len(ret_rollback[w]) :
                   ret_rollback[v][i] = ret_rollback[w][j]

C3_Witness ==
    /\ \A v \in Variants : added[v] = 2 /\ ret_rollback[v] # <<>>
    /\ script[1] # script[2]

\* C4: a step in which a variant receives no migration (a call of its execute() or
\* rollback(), or nothing) leaves its stored migrations as they were, and all the
\* values its execute() has returned since its last add_migration are one value, as
\* are those of its rollback().
C4_ReadsOnlyRead ==
    [][\A v \in Variants :
          added'[v] = added[v] =>
              /\ Fields'[v] = Fields[v]
              /\ \A i \in 1..Len(ret_execute'[v]), j \in 1..Len(ret_execute'[v]) :
                     ret_execute'[v][i] = ret_execute'[v][j]
              /\ \A i \in 1..Len(ret_rollback'[v]), j \in 1..Len(ret_rollback'[v]) :
                     ret_rollback'[v][i] = ret_rollback'[v][j]]_vars

\* execute, rollback, execute on one schema holding two different migrations.
C4_Witness ==
    \E v \in Variants :
        /\ added[v] = 2 /\ script[1] # script[2]
        /\ Len(ret_execute[v]) = 2
        /\ Len(ret_rollback[v]) = 1

\* C9: every Schema starts with no migration; a step in which a variant receives a
\* migration stores exactly one more entry, the new migration's representation last,
\* with the entries before it unchanged in place; any other step leaves as many
\* entries, so that what is stored before a step is a prefix of what is stored after.
IsPrefix(s, t) == Len(s) <= Len(t) /\ \A i \in 1..Len(s) : t[i] = s[i]

C9_AppendOnly ==
    /\ \A v \in Variants : Stored(v) = 0
    /\ Len(fn_rollbacks) = 0
    /\ [][/\ IsPrefix(to_commands, to_commands')
          /\ IsPrefix(fp_commands, fp_commands')
          /\ IsPrefix(fn_executes, fn_executes')
          /\ IsPrefix(fn_rollbacks, fn_rollbacks')
          /\ \A v \in Variants :
                Stored(v)' = IF added'[v] = added[v] + 1 THEN Stored(v) + 1 ELSE Stored(v)
          /\ added'["trait_object"] = added["trait_object"] + 1 =>
                to_commands'[Len(to_commands')] = BoxedCommand(script'[added'["trait_object"]])
          /\ added'["function_pointer"] = added["function_pointer"] + 1 =>
                LET c == fp_commands'[Len(fp_commands')]
                IN  <<c.execute, c.rollback>> = FnPtrPair(script'[added'["function_pointer"]])
          /\ added'["fn_trait_object"] = added["fn_trait_object"] + 1 =>
                <<fn_executes'[Len(fn_executes')], fn_rollbacks'[Len(fn_rollbacks')]>>
                    = ClosurePair(script'[added'["fn_trait_object"]])]_vars

C9_Witness ==
    /\ \A v \in Variants : added[v] = 3 /\ Stored(v) = 3
    /\ script[1] # script[2]

\* C10: in fn_trait_object::Schema, executes and rollbacks have the same length, the
\* number of add_migration calls; executes[i] and rollbacks[i] are the two closures
\* the i-th add_migration call passed; and the values execute() and rollback()
\* returned have that length too.
C10_ClosureVectorsAligned ==
    LET n == added["fn_trait_object"]
    IN  /\ Len(fn_executes) = n
        /\ Len(fn_rollbacks) = n
        /\ \A i \in 1..n : <<fn_executes[i], fn_rollbacks[i]>> = ClosurePair(script[i])
        /\ \A k \in 1..Len(ret_execute["fn_trait_object"]) :
               Len(ret_execute["fn_trait_object"][k]) = n
        /\ \A k \in 1..Len(ret_rollback["fn_trait_object"]) :
               Len(ret_rollback["fn_trait_object"][k]) = n

C10_Witness ==
    /\ added["fn_trait_object"] = 3
    /\ script[1] # script[2]
    /\ ret_execute["fn_trait_object"] # <<>>
    /\ ret_rollback["fn_trait_object"] # <<>>

---------------------------------------------------------------------------
(* raii_guard.rs: the properties *)

\* C5: a ConnectionGuard::send_data call returns Ok exactly when the guard holds a
\* connection that is connected; otherwise it returns the error of kind BrokenPipe
\* with the message "Connection closed"; and it leaves the guard's field as it was.
C5_SendDataOkOrBrokenPipe ==
    [][Len(g_results') = Len(g_results) + 1 =>
          LET r == g_results'[Len(g_results')]
              held == g_network # None /\ g_network[1].connected
          IN  /\ r.tag = "Ok" <=> held
              /\ ~held => r = Err("BrokenPipe", "Connection closed")
              /\ g_network' = g_network
              /\ g_phase' = g_phase]_vars

\* A send that succeeded, then one that failed after close.
C5_Witness ==
    /\ Len(g_results) = 2
    /\ g_results[1] = Ok
    /\ g_results[2] = Err("BrokenPipe", "Connection closed")
    /\ g_phase = "live"

\* C6: NetworkConnection::close never runs more than once; once the guard is
\* dropped, whatever was sent or closed before, drop has called
\* ConnectionGuard::close, the guard holds no connection, and
\* NetworkConnection::close has run exactly once.
C6_ReleasedOnceOnDrop ==
    /\ Count(g_calls, "NetworkConnection::close") <= 1
    /\ Count(g_stdout, "Closing network connection") = Count(g_calls, "NetworkConnection::close")
    /\ g_phase = "dropped" =>
          /\ g_network = None
          /\ Count(g_calls, "NetworkConnection::close") = 1
          /\ Count(g_calls, "ConnectionGuard::drop") = 1
          /\ \E i \in 1..(Len(g_calls) - 1) :
                /\ g_calls[i] = "ConnectionGuard::drop"
                /\ g_calls[i + 1] = "ConnectionGuard::close"

\* Dropped after a send that succeeded, two explicit closes and a send that failed.
C6_Witness ==
    /\ g_phase = "dropped"
    /\ Count(g_calls, "ConnectionGuard::close") = 3
    /\ \E i \in 1..Len(g_results) : g_results[i] = Ok
    /\ \E i \in 1..Len(g_results) : g_results[i].tag = "Err"

---------------------------------------------------------------------------
(* strategy_di.rs: the properties *)

\* An integer that may lie outside i32, as <<q, d>> standing for 10 * q + d with d
\* in 0..9.
Wide(n) == <<n \div 10, n % 10>>

WidePlus(x, y) == <<x[1] + y[1] + ((x[2] + y[2]) \div 10), (x[2] + y[2]) % 10>>

WideMinus(x, y) == <<x[1] - y[1] + ((x[2] - y[2]) \div 10), (x[2] - y[2]) % 10>>

WideLeq(x, y) == x[1] < y[1] \/ (x[1] = y[1] /\ x[2] <= y[2])

FitsI32(x) == WideLeq(Wide(I32Min), x) /\ WideLeq(x, Wide(I32Max))

\* 2^32
Two32 == WidePlus(WidePlus(Wide(I32Max), Wide(I32Max)), Wide(2))

\* The decimal numeral of a wide integer.
Numeral(x) ==
    IF x[1] >= 0
      THEN (IF x[1] = 0 THEN "" ELSE ToString(x[1])) \o ToString(x[2])
    ELSE IF x[2] = 0
      THEN "-" \o ToString(-x[1]) \o "0"
    ELSE "-" \o (IF x[1] = -1 THEN "" ELSE ToString(-x[1] - 1)) \o ToString(10 - x[2])

\* The integer a + b or a - b of the strategy, in the integers.
Exact(strategy, a, b) ==
    IF strategy = "AdditionStrategy" THEN WidePlus(Wide(a), Wide(b))
                                     ELSE WideMinus(Wide(a), Wide(b))

\* The same integer brought into i32 modulo 2^32.
Wrapped(x) ==
    IF FitsI32(x) THEN x
    ELSE IF WideLeq(x, Wide(I32Max)) THEN WidePlus(x, Two32)
    ELSE WideMinus(x, Two32)

Backend(db) == IF db = "MySQLDatabase" THEN "MySQL" ELSE "Postgres"

Expected(db, x) == Returned(Backend(db) \o ": SELECT " \o Numeral(x) \o ";")

\* C7 as stated: for every a and b in i32, Context::execute(a, b) returns
\* "<backend>: SELECT <r>;" with <r> the integer a + b (AdditionStrategy) or a - b
\* (SubtractionStrategy).
C7_Original ==
    \A k \in 1..Len(c_call) :
        c_call[k].ret = Expected(c_db, Exact(c_strategy, c_call[k].a, c_call[k].b))

\* C7 as amended: for every a and b in i32 whose a + b (AdditionStrategy) or a - b
\* (SubtractionStrategy) lies in i32, Context::execute(a, b) returns
\* "<backend>: SELECT <r>;" with <r> that integer; when it lies outside i32 the call
\* panics in a build that checks overflow, and otherwise returns the string with <r>
\* that integer wrapped modulo 2^32 into i32.
C7_Amended ==
    \A k \in 1..Len(c_call) :
        LET x == Exact(c_strategy, c_call[k].a, c_call[k].b)
        IN  IF FitsI32(x) THEN c_call[k].ret = Expected(c_db, x)
            ELSE IF c_overflow_checks THEN c_call[k].ret = Panic
            ELSE c_call[k].ret = Expected(c_db, Wrapped(x))

\* The second call of test_strategy_di.
C7_Witness ==
    /\ c_strategy = "SubtractionStrategy"
    /\ c_db = "PostgresDatabase"
    /\ c_call = <<[a |-> 10, b |-> 3, ret |-> Returned("Postgres: SELECT 7;")]>>

---------------------------------------------------------------------------
(* newtype.rs: the properties *)

\* C8: whatever two Passwords wrap, formatting them gives the same string, the 16
\* stars.
C8_DisplayRevealsNothing ==
    \A i \in Slots, j \in Slots :
        (p_shown[i] # <<>> /\ p_shown[j] # <<>>) =>
            /\ p_shown[i] = p_shown[j]
            /\ p_shown[i][1] = "****************"
            /\ Len(p_shown[i][1]) = 16

\* The empty string and a string longer than 16 characters, both displayed.
C8_Witness ==
    /\ p_password[1] = ""
    /\ p_password[2] = "correct horse battery staple"
    /\ p_shown[1] # <<>>
    /\ p_shown[2] # <<>>

=============================================================================
